---- MODULE Spec2Model ----
(***************************************************************************)
(* A model of src/main.py: the three supplier adapters (Acme, Patagonia,   *)
(* Paperflies), HotelsService.merge_and_save / _merge and                  *)
(* HotelsService.find.                                                     *)
(*                                                                         *)
(* Python values are encoded as follows.                                   *)
(*   - An optional value (None, or an absent dictionary key / a deleted    *)
(*     attribute) is the empty tuple <<>>; a present value v is <<v>>.     *)
(*   - A list is a sequence; a dict is the sequence of its                 *)
(*     [key, value] entries in insertion order (Python dicts keep it).     *)
(*   - list(set(xs)) yields the distinct elements of xs in an order that   *)
(*     depends on the hash seed: every enumeration is a possible outcome.  *)
(***************************************************************************)
EXTENDS Integers, Sequences, FiniteSets, TLC

VARIABLES
    hotels,     \* HotelsService.hotels: the dict id -> Hotel
    data,       \* the argument of the running/finished merge_and_save call
    i,          \* merge_and_save: index of the next element of data
    pc,         \* "created" | "merging" | "merged" | "found"
    last,       \* history: base and incoming of the _merge made by the last iteration
    query,      \* the arguments of the last find call
    result      \* the outcome of the last find call

vars == <<hotels, data, i, pc, last, query, result>>

\* ------------------------------------------------------------------ bounds

\* Longest input sequence handed to merge_and_save.
MaxRecords == 2
\* Longest hotel_ids / destination_ids list handed to find.
MaxQuery == 2

\* ------------------------------------------------------- values and helpers

None == <<>>
Some(v) == <<v>>

Range(s) == {s[k] : k \in 1..Len(s)}

SeqsUpTo(S, n) == UNION {[1..m -> S] : m \in 0..n}

\* dto.get(key, default)
Get(opt, default) == IF opt = None THEN default ELSE opt[1]

\* Python truthiness of an optional number: None and 0 are falsy.
TruthyNum(v) == v # None /\ v[1] # 0
\* Python truthiness of an optional string: None and "" are falsy.
TruthyStr(v) == v # None /\ v[1] # ""

\* str.lower() on the strings of the model.
Lower(s) ==
    CASE s = "Pool" -> "pool"
      [] s = "WiFi" -> "wifi"
      [] s = "Pets" -> "pets"
      [] OTHER -> s

\* str.strip() on the strings of the model.
Strip(s) ==
    CASE s = " 1 Main St " -> "1 Main St"
      [] s = " S1 " -> "S1"
      [] OTHER -> s

\* f"{a}, {b}" on the (stripped) strings of the model.
CommaJoin(a, b) ==
    CASE a = "" /\ b = "" -> ", "
      [] a = "" /\ b = "S1" -> ", S1"
      [] a = "1 Main St" /\ b = "" -> "1 Main St, "
      [] a = "1 Main St" /\ b = "S1" -> "1 Main St, S1"

\* [f(x) for x in xs]
MapLower(xs) == [k \in 1..Len(xs) |-> Lower(xs[k])]

\* ------------------------------------------------------------- data classes

Location(lat, lng, address, city, country) ==
    [lat |-> lat, lng |-> lng, address |-> address, city |-> city, country |-> country]

Amenities(general, room) == [general |-> general, room |-> room]

Image(link, description) == [link |-> link, description |-> description]

Images(rooms, site, amenities) == [rooms |-> rooms, site |-> site, amenities |-> amenities]

Hotel(id, source, destination_id, name, location, description, amenities, images, booking_conditions) ==
    [id |-> id, source |-> Some(source), destination_id |-> destination_id, name |-> name,
     location |-> location, description |-> description, amenities |-> amenities,
     images |-> images, booking_conditions |-> booking_conditions]

\* --------------------------------------------------------- supplier adapters

Acme_parse(dto) ==
    Hotel(dto.Id, "Acme", dto.DestinationId, dto.Name,
          Location(dto.Latitude, dto.Longitude,
                   Some(CommaJoin(Strip(Get(dto.Address, "")), Strip(Get(dto.PostalCode, "")))),
                   dto.City, dto.Country),
          Get(dto.Description, ""),
          Amenities(<<>>, <<>>),
          Images(<<>>, <<>>, <<>>),
          <<>>)

PatagoniaImage(image) == Image(image.url, image.description)

Patagonia_parse(dto) ==
    Hotel(dto.id, "Patagonia", dto.destination, dto.name,
          Location(dto.lat, dto.lng, dto.address, None, None),
          Get(dto.info, ""),
          Amenities(<<>>, <<>>),
          Images([k \in 1..Len(Get(dto.images.rooms, <<>>)) |->
                      PatagoniaImage(Get(dto.images.rooms, <<>>)[k])],
                 <<>>,
                 [k \in 1..Len(Get(dto.images.amenities, <<>>)) |->
                      PatagoniaImage(Get(dto.images.amenities, <<>>)[k])]),
          <<>>)

PaperfliesImage(image) == Image(image.link, image.caption)

Paperflies_parse(dto) ==
    Hotel(dto.hotel_id, "Paperflies", dto.destination_id, dto.hotel_name,
          Location(None, None, dto.location.address, None, dto.location.country),
          Get(dto.details, ""),
          Amenities(MapLower(Get(dto.amenities.general, <<>>)),
                    MapLower(Get(dto.amenities.room, <<>>))),
          Images([k \in 1..Len(Get(dto.images.rooms, <<>>)) |->
                      PaperfliesImage(Get(dto.images.rooms, <<>>)[k])],
                 [k \in 1..Len(Get(dto.images.site, <<>>)) |->
                      PaperfliesImage(Get(dto.images.site, <<>>)[k])],
                 <<>>),
          Get(dto.booking_conditions, <<>>))

\* ----------------------------------------------------------------- dicts

Keys(d) == {d[k].key : k \in 1..Len(d)}

\* d[key]
DictGet(d, key) == d[CHOOSE k \in 1..Len(d) : d[k].key = key].value

\* d[key] = value: an existing key keeps its position, a new key goes last.
DictSet(d, key, value) ==
    IF key \in Keys(d)
    THEN [k \in 1..Len(d) |-> IF d[k].key = key THEN [key |-> key, value |-> value] ELSE d[k]]
    ELSE Append(d, [key |-> key, value |-> value])

\* list(d.values())
Values(d) == [k \in 1..Len(d) |-> d[k].value]

\* list(set(xs)): the enumerations of the distinct elements of xs.
ListOfSet(xs) ==
    {s \in [1..Cardinality(Range(xs)) -> Range(xs)] : Range(s) = Range(xs)}

\* ------------------------------------------------------ HotelsService._merge

\* Lines 169-170 for lat and lng (numbers).
FillInNum(base_value, incoming_value) ==
    IF ~TruthyNum(base_value) /\ TruthyNum(incoming_value) THEN incoming_value ELSE base_value

\* Lines 169-170 for address and city (strings).
FillInStr(base_value, incoming_value) ==
    IF ~TruthyStr(base_value) /\ TruthyStr(incoming_value) THEN incoming_value ELSE base_value

\* A variant of lines 166-170 that lets any supplier's country override.
MergeCountryAnySource(base_value, incoming_value, incoming_source) ==
    IF TruthyStr(incoming_value) THEN incoming_value ELSE base_value

\* Lines 166-170 for country. incoming.source is read only when incoming has a
\* truthy country; every record merge_and_save hands in comes from an adapter
\* and carries its source.
MergeCountry(base_value, incoming_value, incoming_source) ==
    IF TruthyStr(incoming_value) /\ incoming_source = Some("Paperflies")
    THEN incoming_value
    ELSE FillInStr(base_value, incoming_value)

\* Lines 160-173. Every adapter builds a Location and a dataclass instance is
\* truthy, so the branch of line 160 is the one taken.
MergeLocation(base, incoming) ==
    Location(FillInNum(base.location.lat, incoming.location.lat),
             FillInNum(base.location.lng, incoming.location.lng),
             FillInStr(base.location.address, incoming.location.address),
             FillInStr(base.location.city, incoming.location.city),
             MergeCountry(base.location.country, incoming.location.country, incoming.source))

\* Line 175: base.description or incoming.description
MergeDescription(base_description, incoming_description) ==
    IF base_description # "" THEN base_description ELSE incoming_description

\* {(image.link, image.description): image for image in images}
RECURSIVE ImageDict(_)
ImageDict(images) ==
    IF images = <<>> THEN <<>>
    ELSE LET image == images[Len(images)]
         IN  DictSet(ImageDict(SubSeq(images, 1, Len(images) - 1)),
                     <<image.link, image.description>>, image)

\* A variant of lines 178-179 that keeps every image, as line 180 does.
MergeGalleryNoDedup(base_images, incoming_images) == base_images \o incoming_images

\* Lines 178-179: list({...}.values()) over base's images followed by incoming's.
MergeGallery(base_images, incoming_images) ==
    Values(ImageDict(base_images \o incoming_images))

\* Line 180: base.images.amenities.extend(incoming.images.amenities)
ExtendGallery(base_images, incoming_images) == base_images \o incoming_images

\* Lines 176, 177, 181: the elements list(set(base + incoming)) holds.
UnionList(base_list, incoming_list) == base_list \o incoming_list

\* Lines 158-183: the hotels base may be after _merge(base, incoming), one per
\* order list(set(...)) may give the three set-valued lists.
_merge(base, incoming) ==
    {[base EXCEPT
        !.location = MergeLocation(base, incoming),
        !.description = MergeDescription(base.description, incoming.description),
        !.amenities = Amenities(general, room),
        !.images = Images(MergeGallery(base.images.rooms, incoming.images.rooms),
                          MergeGallery(base.images.site, incoming.images.site),
                          ExtendGallery(base.images.amenities, incoming.images.amenities)),
        !.booking_conditions = booking_conditions,
        !.source = None] :
        general \in ListOfSet(UnionList(base.amenities.general, incoming.amenities.general)),
        room \in ListOfSet(UnionList(base.amenities.room, incoming.amenities.room)),
        booking_conditions \in ListOfSet(UnionList(base.booking_conditions, incoming.booking_conditions))}

\* ------------------------------------------------ HotelsService.merge_and_save

\* A variant of line 154 that keys the dict by the hotel's name.
StoreByName(d, hotel) == DictSet(d, hotel.name, hotel)

\* Line 154: self.hotels[hotel.id] = hotel
Store(d, hotel) == DictSet(d, hotel.id, hotel)

\* ------------------------------------------------------- HotelsService.find

Returned(hotel_list) == [outcome |-> "returned", value |-> hotel_list]
\* The function body ends without a return statement: the call evaluates to None.
ReturnedNone == [outcome |-> "returned None", value |-> <<>>]
Raised(exception) == [outcome |-> exception, value |-> <<>>]
NoResult == [outcome |-> "not called", value |-> <<>>]

\* Lines 197-204. The return of line 204 is in the body of the inner loop, after
\* the if: the inner loop looks at the first hotel only. It appends it and breaks
\* when it matches, and returns results at once when it does not.
RECURSIVE FindLoop(_, _, _, _, _)
FindLoop(hotels_data, hotel_ids, destination_ids, n, results) ==
    IF n > Len(hotel_ids)
    THEN ReturnedNone
    ELSE LET hotel_id == hotel_ids[n]
             destination_id == IF n <= Len(destination_ids) THEN Some(destination_ids[n]) ELSE None
         IN  IF hotels_data = <<>>
             THEN FindLoop(hotels_data, hotel_ids, destination_ids, n + 1, results)
             ELSE LET hotel == hotels_data[1]
                  IN  IF /\ hotel.id = hotel_id
                         /\ (destination_id = None \/ hotel.destination_id = destination_id[1])
                      THEN FindLoop(hotels_data, hotel_ids, destination_ids, n + 1,
                                    Append(results, hotel))
                      ELSE Returned(results)

\* Lines 185-204. hotel_ids and destination_ids are optional lists.
find(d, hotel_ids, destination_ids) ==
    LET hotels_data == Values(d)
        InDestinations(hotel) == hotel.destination_id \in Range(destination_ids[1])
        InHotelIds(hotel) == hotel.id \in Range(hotel_ids[1])
    IN  IF hotel_ids = None /\ destination_ids # None
        THEN Returned(SelectSeq(hotels_data, InDestinations))
        ELSE IF destination_ids = None /\ hotel_ids # None
        THEN Returned(SelectSeq(hotels_data, InHotelIds))
        ELSE IF destination_ids = None /\ hotel_ids # None
        THEN Returned(hotels_data)
        ELSE IF hotel_ids = None
        THEN Raised("TypeError")        \* line 197: len(None)
        ELSE FindLoop(hotels_data, hotel_ids[1], destination_ids[1], 1, <<>>)

\* ------------------------------------------------------------ supplier feeds

HotelIds == {"h1", "h2"}
DestinationIds == {5, 6}

AcmeDTO(Id, DestinationId, Latitude, Longitude, Address, PostalCode, City, Country, Description) ==
    [Id |-> Id, DestinationId |-> DestinationId, Name |-> "Acme Hotel",
     Latitude |-> Latitude, Longitude |-> Longitude, Address |-> Address,
     PostalCode |-> PostalCode, City |-> City, Country |-> Country,
     Description |-> Description]

PatagoniaDTO(id, destination, lat, lng, address, info, rooms, amenities) ==
    [id |-> id, destination |-> destination, name |-> "Patagonia Hotel",
     lat |-> lat, lng |-> lng, address |-> address, info |-> info,
     images |-> [rooms |-> rooms, amenities |-> amenities]]

PaperfliesDTO(hotel_id, destination_id, address, country, details, general, room, rooms, site, booking_conditions) ==
    [hotel_id |-> hotel_id, destination_id |-> destination_id, hotel_name |-> "Paperflies Hotel",
     location |-> [address |-> address, country |-> country], details |-> details,
     amenities |-> [general |-> general, room |-> room],
     images |-> [rooms |-> rooms, site |-> site],
     booking_conditions |-> booking_conditions]

PatagoniaPic(url, description) == [url |-> url, description |-> description]
PaperfliesPic(link, caption) == [link |-> link, caption |-> caption]

\* Records that differ in identity: two hotel ids, two destinations, three suppliers.
IdentityRecords ==
    {Acme_parse(AcmeDTO(id, dest, None, None, None, None, None, Some("A"), None)) :
        id \in HotelIds, dest \in DestinationIds}
    \cup
    {Patagonia_parse(PatagoniaDTO(id, dest, None, None, None, None, None,
                                  Some(<<PatagoniaPic("u9", "bar")>>))) :
        <<id, dest>> \in {<<"h1", 5>>, <<"h2", 6>>}}
    \cup
    {Paperflies_parse(PaperfliesDTO(id, 5, None, Some("B"), None, None, None, None, None, None)) :
        id \in HotelIds}

\* Records of one hotel that differ in content, one field group at a time.
AcmeContent ==
    {AcmeDTO("h1", 5, lat, None, None, None, None, None, None) : lat \in {None, Some(0), Some(1)}}
    \cup {AcmeDTO("h1", 5, None, Some(3), None, None, None, None, None)}
    \cup {AcmeDTO("h1", 5, None, None, Some(" 1 Main St "), postal, None, None, None) :
            postal \in {None, Some(" S1 ")}}
    \cup {AcmeDTO("h1", 5, None, None, None, None, Some("c1"), None, None)}
    \cup {AcmeDTO("h1", 5, None, None, None, None, None, country, None) :
            country \in {Some(""), Some("A")}}
    \cup {AcmeDTO("h1", 5, None, None, None, None, None, None, Some("acme text"))}

PatagoniaContent ==
    {PatagoniaDTO("h1", 5, lat, None, None, None, None, None) : lat \in {None, Some(0), Some(2)}}
    \cup {PatagoniaDTO("h1", 5, None, Some(4), None, None, None, None)}
    \cup {PatagoniaDTO("h1", 5, None, None, address, None, None, None) :
            address \in {Some(""), Some("p addr")}}
    \cup {PatagoniaDTO("h1", 5, None, None, None, Some("patagonia text"), None, None)}
    \cup {PatagoniaDTO("h1", 5, None, None, None, None, Some(rooms), None) :
            rooms \in {<<PatagoniaPic("u1", "d1")>>,
                       <<PatagoniaPic("u1", "d1"), PatagoniaPic("u1", "d1")>>,
                       <<PatagoniaPic("u1", "d1"), PatagoniaPic("u1", "d2")>>,
                       <<PatagoniaPic("u1", "d2"), PatagoniaPic("u1", "d1")>>}}
    \cup {PatagoniaDTO("h1", 5, None, None, None, None,
                        Some(<<PatagoniaPic("u1", "d1")>>), Some(<<PatagoniaPic("u9", "bar")>>))}
    \cup {PatagoniaDTO("h1", 5, None, None, None, None, None, Some(amenities)) :
            amenities \in {<<PatagoniaPic("u9", "bar")>>,
                           <<PatagoniaPic("u9", "bar"), PatagoniaPic("u9", "bar")>>}}

PaperfliesContent ==
    {PaperfliesDTO("h1", 5, None, country, None, None, None, None, None, None) :
            country \in {None, Some(""), Some("B")}}
    \cup {PaperfliesDTO("h1", 5, Some("pf addr"), None, None, None, None, None, None, None)}
    \cup {PaperfliesDTO("h1", 5, None, None, Some("paperflies text"), None, None, None, None, None)}
    \cup {PaperfliesDTO("h1", 5, None, None, None, Some(general), None, None, None, None) :
            general \in {<<"Pool">>, <<"Pool", "pool">>, <<"pool", "WiFi">>}}
    \cup {PaperfliesDTO("h1", 5, None, None, None, None, Some(<<"WiFi">>), None, None, None)}
    \cup {PaperfliesDTO("h1", 5, None, None, None, None, None, Some(rooms), None, None) :
            rooms \in {<<PaperfliesPic("u1", "d1")>>,
                       <<PaperfliesPic("u3", "d1"), PaperfliesPic("u1", "d1")>>}}
    \cup {PaperfliesDTO("h1", 5, None, None, None, None, None, None, Some(site), None) :
            site \in {<<PaperfliesPic("u5", "lobby")>>,
                      <<PaperfliesPic("u5", "lobby"), PaperfliesPic("u5", "lobby")>>}}
    \cup {PaperfliesDTO("h1", 5, None, None, None, None, None, None, None, Some(conditions)) :
            conditions \in {<<"Pets">>, <<"pets">>, <<"Pets", "pets">>}}

ContentRecords ==
    {Acme_parse(dto) : dto \in AcmeContent}
    \cup {Patagonia_parse(dto) : dto \in PatagoniaContent}
    \cup {Paperflies_parse(dto) : dto \in PaperfliesContent}

\* ---------------------------------------------------------------- the machine

\* HotelsService(): line 149.
Init ==
    /\ hotels = <<>>
    /\ data = <<>>
    /\ i = 1
    /\ pc = "created"
    /\ last = None
    /\ query = [hotel_ids |-> None, destination_ids |-> None]
    /\ result = NoResult

\* merge_and_save(data) is called with a sequence of adapter records.
MergeAndSaveCall(records) ==
    /\ pc = "created"
    /\ \E input \in SeqsUpTo(records, MaxRecords) :
          /\ data' = input
          /\ pc' = IF input = <<>> THEN "merged" ELSE "merging"
    /\ i' = 1
    /\ UNCHANGED <<hotels, last, query, result>>

\* One iteration of the loop of lines 152-156.
MergeAndSaveIteration ==
    /\ pc = "merging"
    /\ LET hotel == data[i]
       IN  IF hotel.id \notin Keys(hotels)
           THEN /\ hotels' = Store(hotels, hotel)
                /\ last' = None
           ELSE \E merged \in _merge(DictGet(hotels, hotel.id), hotel) :
                   \* _merge mutates the stored object in place
                   /\ hotels' = DictSet(hotels, hotel.id, merged)
                   /\ last' = Some([base |-> DictGet(hotels, hotel.id), incoming |-> hotel])
    /\ i' = i + 1
    /\ pc' = IF i = Len(data) THEN "merged" ELSE "merging"
    /\ UNCHANGED <<data, query, result>>

\* fetch_hotels, lines 233-234: a filter is None ("none" on the command line) or
\* the list a split(",") gives, which has at least one element.
Filters(ids) == {None} \cup {Some(list) : list \in SeqsUpTo(ids, MaxQuery) \ {<<>>}}

\* find(hotel_ids, destination_ids) on the merged collection (line 235).
Find ==
    /\ pc = "merged"
    /\ \E hotel_ids \in Filters(HotelIds), destination_ids \in Filters(DestinationIds) :
          /\ query' = [hotel_ids |-> hotel_ids, destination_ids |-> destination_ids]
          /\ result' = find(hotels, hotel_ids, destination_ids)
    /\ pc' = "found"
    /\ UNCHANGED <<hotels, data, i, last>>

\* The service as fetch_hotels uses it: one merge_and_save, then find.
Next ==
    \/ MergeAndSaveCall(IdentityRecords)
    \/ MergeAndSaveIteration
    \/ Find

Spec == Init /\ [][Next]_vars

\* merge_and_save alone, on records of one hotel that differ in content.
NextMerge ==
    \/ MergeAndSaveCall(ContentRecords)
    \/ MergeAndSaveIteration

SpecMerge == Init /\ [][NextMerge]_vars

\* ------------------------------------------------------------------- claims

Finished == pc \in {"merged", "found"}

\* The stored hotel that the last iteration's _merge produced.
LastMerged == DictGet(hotels, last[1].base.id)

\* C1: once merge_and_save has processed its input, the merged collection has
\* exactly the input's ids as keys, no key twice, and the hotel under key k has
\* id k.
C1_OneHotelPerId ==
    Finished =>
        /\ Keys(hotels) = {data[k].id : k \in 1..Len(data)}
        /\ \A a, b \in 1..Len(hotels) : hotels[a].key = hotels[b].key => a = b
        /\ \A a \in 1..Len(hotels) : hotels[a].value.id = hotels[a].key

\* Two records sharing an id were processed and collapsed to one entry.
C1_Witness ==
    /\ pc = "merged"
    /\ Len(data) = 2
    /\ data[1].id = data[2].id
    /\ data[1].source # data[2].source
    /\ Len(hotels) = 1

NonAuthoritative == {Some("Acme"), Some("Patagonia")}

\* C2: for two records of one hotel, one from Acme or Patagonia with a country
\* and one from Paperflies with a country, the merged country is Paperflies',
\* in either processing order.
C2_CountryOverride ==
    (pc = "merged" /\ Len(data) = 2) =>
        \A p, q \in 1..2 :
            (/\ p # q
             /\ data[p].id = data[q].id
             /\ data[p].source = Some("Paperflies")
             /\ data[q].source \in NonAuthoritative
             /\ TruthyStr(data[p].location.country)
             /\ TruthyStr(data[q].location.country)
             /\ data[p].location.country # data[q].location.country)
            => DictGet(hotels, data[p].id).location.country = data[p].location.country

\* The authoritative record was processed first, the other one second.
C2_Witness ==
    /\ pc = "merged"
    /\ Len(data) = 2
    /\ data[1].source = Some("Paperflies")
    /\ data[1].location.country = Some("B")
    /\ data[2].source = Some("Acme")
    /\ data[2].location.country = Some("A")
    /\ hotels[1].value.location.country = Some("B")

\* C3: a non-null lat, lng, address or city of the stored hotel is not changed
\* by a _merge.
C3_FillInNeverRegresses ==
    last # None =>
        LET before == last[1].base.location
            after == LastMerged.location
        IN  /\ before.lat # None => after.lat = before.lat
            /\ before.lng # None => after.lng = before.lng
            /\ before.address # None => after.address = before.address
            /\ before.city # None => after.city = before.city

\* C4: after merge_and_save no hotel of the merged collection has a source
\* attribute.
C4_NoSourceAfterMerge ==
    Finished => \A k \in 1..Len(hotels) : hotels[k].value.source = None

\* The set-valued fields of two hotels hold the same elements.
SameSets(x, y) ==
    /\ Range(x.amenities.general) = Range(y.amenities.general)
    /\ Range(x.amenities.room) = Range(y.amenities.room)
    /\ Range(x.images.rooms) = Range(y.images.rooms)
    /\ Range(x.images.site) = Range(y.images.site)
    /\ Range(x.booking_conditions) = Range(y.booking_conditions)

\* The fill-in fields of two hotels are equal.
SameFillIns(x, y) ==
    /\ x.location.lat = y.location.lat
    /\ x.location.lng = y.location.lng
    /\ x.location.address = y.location.address
    /\ x.location.city = y.location.city
    /\ x.description = y.description

TwoOfOneHotel == pc = "merged" /\ Len(data) = 2 /\ data[1].id = data[2].id

\* C5: for two records a and b of one hotel, merging [a, b] and merging [b, a]
\* give the same lat, lng, address, city and description and the same
\* amenities.general, amenities.room, images.rooms, images.site and
\* booking_conditions (compared as sets).
C5_Commutative ==
    TwoOfOneHotel =>
        \A reversed \in _merge(data[2], data[1]) :
            /\ SameFillIns(hotels[1].value, reversed)
            /\ SameSets(hotels[1].value, reversed)

\* The fields C6 lists are equal in two hotels.
SameContent(x, y) ==
    /\ x.location = y.location
    /\ x.description = y.description
    /\ x.amenities = y.amenities
    /\ x.images = y.images
    /\ x.booking_conditions = y.booking_conditions

\* C6: _merge(h, h') with h' an equal copy of h leaves location, description,
\* amenities, the three galleries and booking_conditions of h as they were.
C6_Idempotent ==
    (last # None /\ SameContent(last[1].base, last[1].incoming)) =>
        SameContent(LastMerged, last[1].base)

\* The position of the first occurrence of x in xs.
FirstIndex(xs, x) == CHOOSE k \in 1..Len(xs) : xs[k] = x /\ \A j \in 1..(k - 1) : xs[j] # x

\* out holds each distinct element of in exactly once, in order of first occurrence.
DistinctInFirstOccurrenceOrder(out, in) ==
    /\ Range(out) = Range(in)
    /\ \A a, b \in 1..Len(out) : out[a] = out[b] => a = b
    /\ \A a, b \in 1..Len(out) : a < b => FirstIndex(in, out[a]) < FirstIndex(in, out[b])

\* C7: after _merge(base, incoming), images.rooms and images.site hold each
\* distinct (link, description) pair of base and incoming once, in order of
\* first occurrence, and images.amenities is base's sequence followed by
\* incoming's, duplicates kept.
C7_Galleries ==
    last # None =>
        LET base == last[1].base.images
            incoming == last[1].incoming.images
            merged == LastMerged.images
        IN  /\ DistinctInFirstOccurrenceOrder(merged.rooms, base.rooms \o incoming.rooms)
            /\ DistinctInFirstOccurrenceOrder(merged.site, base.site \o incoming.site)
            /\ Len(merged.amenities) = Len(base.amenities) + Len(incoming.amenities)
            /\ \A k \in 1..Len(base.amenities) : merged.amenities[k] = base.amenities[k]
            /\ \A k \in 1..Len(incoming.amenities) :
                  merged.amenities[Len(base.amenities) + k] = incoming.amenities[k]

\* A _merge of two records that share a rooms image and both bring the same
\* amenities image: rooms collapsed, amenities kept both.
C7_Witness ==
    /\ last # None
    /\ last[1].base.images.rooms # <<>>
    /\ Range(last[1].base.images.rooms) \cap Range(last[1].incoming.images.rooms) # {}
    /\ Len(LastMerged.images.rooms) = 1
    /\ last[1].base.images.amenities # <<>>
    /\ last[1].base.images.amenities = last[1].incoming.images.amenities
    /\ Len(LastMerged.images.amenities) = 2

NoDuplicates(xs) == \A a, b \in 1..Len(xs) : xs[a] = xs[b] => a = b
NoDuplicatesIgnoringCase(xs) == \A a, b \in 1..Len(xs) : Lower(xs[a]) = Lower(xs[b]) => a = b

\* C8: in every hotel of the merged collection amenities.general and
\* amenities.room have no duplicate entries and booking_conditions has no two
\* entries equal ignoring case.
C8_NoDuplicateEntries ==
    Finished =>
        \A k \in 1..Len(hotels) :
            /\ NoDuplicates(hotels[k].value.amenities.general)
            /\ NoDuplicates(hotels[k].value.amenities.room)
            /\ NoDuplicatesIgnoringCase(hotels[k].value.booking_conditions)

\* C9: find(None, None) returns the merged collection, every hotel once, in the
\* collection's order.
C9_FindAll ==
    (pc = "found" /\ query.hotel_ids = None /\ query.destination_ids = None) =>
        result = Returned(Values(hotels))

\* Hotel k of the merged collection matches position n of the two filter lists.
Matches(k, n) ==
    /\ hotels[k].value.id = query.hotel_ids[1][n]
    /\ \/ n > Len(query.destination_ids[1])
       \/ hotels[k].value.destination_id = query.destination_ids[1][n]

\* Hotel k is the first hotel of the merged collection matching position n.
FirstMatch(k, n) == Matches(k, n) /\ \A j \in 1..(k - 1) : ~Matches(j, n)

\* C10: with both filters given, find returns a sequence holding, for each
\* position of hotel_ids, the first hotel of the merged collection that matches
\* it, and nothing else; it is empty when no position matches.
C10_FindBoth ==
    (pc = "found" /\ query.hotel_ids # None /\ query.destination_ids # None) =>
        /\ result.outcome = "returned"
        /\ \A n \in 1..Len(query.hotel_ids[1]) : \A k \in 1..Len(hotels) :
              FirstMatch(k, n) => hotels[k].value \in Range(result.value)
        /\ \A x \in Range(result.value) :
              \E n \in 1..Len(query.hotel_ids[1]) : \E k \in 1..Len(hotels) :
                  FirstMatch(k, n) /\ hotels[k].value = x

====
